---------------------------- MODULE Spec2Model ----------------------------
(***************************************************************************)
(* A model of rpvote.py, the Ranked Pairs vote resolver: the Contest       *)
(* (ballots, margins table, compute) and the Outcome (higher/lower tables, *)
(* accept, result, printresult).                                           *)
(*                                                                         *)
(* Python dicts keep their keys in insertion order and the code iterates   *)
(* them, so a dict used as a set is modelled as the sequence of its keys   *)
(* and a dict with values as a sequence of <<key, value>> tuples.          *)
(***************************************************************************)
EXTENDS Integers, Sequences, FiniteSets, TLC

VARIABLES
    entries,        \* Contest.entries: the list of candidate keys
    ballots,        \* Contest.ballots: list of ballots (lists of rank groups)
    margins,        \* Contest.margins: dict (row,col) -> int, in insertion order
    margin_matrix,  \* Contest.margin_matrix: "None" or the count x count matrix
    dic,            \* compute(): margin level -> list of pairs
    level,          \* compute(): the loop variable of the level loop
    outcome,        \* compute(): the current Outcome (in SpecAccept: the Outcome)
    newout,         \* compute(): the clone the last attempt worked on
    compatls,       \* compute(): the compatible facts of the level
    notguilty,      \* compute(): the facts whose omission did not help
    avoidix,        \* compute(): position of the "for avoid in compatls" loop
    res,            \* printresult(): the dict returned by result()
    ls,             \* printresult(): the sorted list of entries
    listing,        \* printresult(): the rows printed so far
    err,            \* the exception that reached the caller ("" if none)
    heap,           \* the dict objects of the Outcomes, where Outcomes are
                    \* held by reference (SpecClone)
    pc              \* position of the script / of the caller

vars == << entries, ballots, margins, margin_matrix, dic, level, outcome,
           newout, compatls, notguilty, avoidix, res, ls, listing, err, heap,
           pc >>

-----------------------------------------------------------------------------
(* Bounds of the model *)

\* most ballots a modelled vote file holds (besides the docstring's example)
MaxBallots == 3

\* largest margin of a margins table drawn directly (SpecTable)
MaxMargin == 2

-----------------------------------------------------------------------------
(* Sequences as Python lists and dicts *)

Range(s) == { s[i] : i \in 1..Len(s) }

RECURSIVE Flatten(_)
Flatten(ss) == IF ss = <<>> THEN <<>> ELSE Head(ss) \o Flatten(Tail(ss))

\* dict.get(key, default) on a dict kept as a sequence of <<key, value>>
DictGet(d, key, default) ==
    IF \E i \in 1..Len(d) : d[i][1] = key
    THEN d[CHOOSE i \in 1..Len(d) : d[i][1] = key][2]
    ELSE default

DictHas(d, key) == \E i \in 1..Len(d) : d[i][1] = key

\* d[key] = val: an existing key keeps its position, a new one goes last
DictPut(d, key, val) ==
    IF DictHas(d, key)
    THEN [i \in 1..Len(d) |-> IF d[i][1] = key THEN <<key, val>> ELSE d[i]]
    ELSE Append(d, <<key, val>>)

\* dic[key] = True on a dict used as a set
SetAdd(keys, key) == IF key \in Range(keys) THEN keys ELSE Append(keys, key)

-----------------------------------------------------------------------------
(* class Outcome *)

\* Outcome(contest): higher and lower start empty. An absent key and an
\* empty inner dict read the same way everywhere ("if (dic and ...)").
BlankOutcome(ents) ==
    [ higher |-> [c \in Range(ents) |-> <<>>],
      lower  |-> [c \in Range(ents) |-> <<>>],
      raised |-> "" ]

\* Outcome.clone(): copies of both tables
Clone(o) ==
    [ higher |-> [c \in DOMAIN o.higher |-> o.higher[c]],
      lower  |-> [c \in DOMAIN o.lower |-> o.lower[c]],
      raised |-> "" ]

\* Outcome.beats(winner, loser)
Beats(o, winner, loser) == winner \in Range(o.higher[loser])

\* Outcome.compatible(winner, loser), for winner # loser
Compatible(o, winner, loser) ==
    /\ loser \notin Range(o.higher[winner])
    /\ winner \notin Range(o.lower[loser])

\* the new fact added to the lower and higher tables
Record(o, winner, loser) ==
    [ o EXCEPT !.lower[winner] = SetAdd(@, loser),
               !.higher[loser] = SetAdd(@, winner) ]

\* the facts that follow from (winner, loser), in the order they are appended
Consequences(o, winner, loser) ==
    LET up   == SelectSeq(o.higher[winner], LAMBDA key : ~Beats(o, key, loser))
        down == SelectSeq(o.lower[loser], LAMBDA key : ~Beats(o, winner, key))
    IN  [i \in 1..Len(up) |-> <<up[i], loser>>]
        \o [i \in 1..Len(down) |-> <<winner, down[i]>>]

\* a broken accept(): the consequences of a new fact are not followed
RECURSIVE AcceptLoopNoConsequences(_, _)
AcceptLoopNoConsequences(o, facts) ==
    IF facts = <<>> THEN o
    ELSE LET winner == Head(facts)[1]
             loser  == Head(facts)[2]
         IN  IF winner = loser
             THEN [o EXCEPT !.raised = "Entry cannot beat itself."]
             ELSE IF ~Compatible(o, winner, loser)
             THEN [o EXCEPT !.raised = "Contradiction."]
             ELSE IF Beats(o, winner, loser)
             THEN AcceptLoopNoConsequences(o, Tail(facts))
             ELSE AcceptLoopNoConsequences(Record(o, winner, loser), Tail(facts))

\* a broken accept(): a fact is recorded before it is checked
RECURSIVE AcceptLoopRecordsFirst(_, _)
AcceptLoopRecordsFirst(o, facts) ==
    IF facts = <<>> THEN o
    ELSE LET winner == Head(facts)[1]
             loser  == Head(facts)[2]
         IN  IF winner = loser
             THEN [o EXCEPT !.raised = "Entry cannot beat itself."]
             ELSE IF ~Compatible(o, winner, loser)
             THEN [Record(o, winner, loser) EXCEPT !.raised = "Contradiction."]
             ELSE IF Beats(o, winner, loser)
             THEN AcceptLoopRecordsFirst(o, Tail(facts))
             ELSE LET o1 == Record(o, winner, loser)
                  IN  AcceptLoopRecordsFirst(o1, Tail(facts) \o Consequences(o1, winner, loser))

\* the "while facts" loop of Outcome.accept(); raised names the exception
\* that ended it, and the tables are then left as they were at the raise
RECURSIVE AcceptLoop(_, _)
AcceptLoop(o, facts) ==
    IF facts = <<>> THEN o
    ELSE LET winner == Head(facts)[1]
             loser  == Head(facts)[2]
         IN  IF winner = loser
             THEN [o EXCEPT !.raised = "Entry cannot beat itself."]
             ELSE IF ~Compatible(o, winner, loser)
             THEN [o EXCEPT !.raised = "Contradiction."]
             ELSE IF Beats(o, winner, loser)
             THEN AcceptLoop(o, Tail(facts))
             ELSE LET o1 == Record(o, winner, loser)
                  IN  AcceptLoop(o1, Tail(facts) \o Consequences(o1, winner, loser))

\* the "while facts" loop with a record of its work: queued holds every fact
\* appended to the list as a consequence, failed the number of the fact in
\* hand when the loop raised (1: the fact accept() was called with; 0: no
\* raise), n counts the facts popped
RECURSIVE AcceptSteps(_, _, _, _)
AcceptSteps(o, facts, n, queued) ==
    IF facts = <<>> THEN [ outcome |-> o, failed |-> 0, queued |-> queued ]
    ELSE LET winner == Head(facts)[1]
             loser  == Head(facts)[2]
         IN  IF winner = loser
             THEN [ outcome |-> [o EXCEPT !.raised = "Entry cannot beat itself."],
                    failed |-> n, queued |-> queued ]
             ELSE IF ~Compatible(o, winner, loser)
             THEN [ outcome |-> [o EXCEPT !.raised = "Contradiction."],
                    failed |-> n, queued |-> queued ]
             ELSE IF Beats(o, winner, loser)
             THEN AcceptSteps(o, Tail(facts), n + 1, queued)
             ELSE LET o1 == Record(o, winner, loser)
                      cons == Consequences(o1, winner, loser)
                  IN  AcceptSteps(o1, Tail(facts) \o cons, n + 1, queued \o cons)

\* Outcome.accept(winner, loser)
Accept(o, winner, loser) == AcceptLoop(o, << <<winner, loser>> >>)

\* result() without the losses in the unresolved count
ResultLossesForgotten(o, ents) ==
    [ row \in Range(ents) |->
        LET wins   == Cardinality({ i \in 1..Len(ents) :
                          ents[i] # row /\ ents[i] \in Range(o.lower[row]) })
            losses == Cardinality({ i \in 1..Len(ents) :
                          ents[i] # row /\ ents[i] \in Range(o.higher[row]) })
        IN  << wins, losses, (Len(ents) - 1) - wins >> ]

\* Outcome.result(): (wins, losses, inconclusive) for every entry
Result(o, ents) ==
    [ row \in Range(ents) |->
        LET wins   == Cardinality({ i \in 1..Len(ents) :
                          ents[i] # row /\ ents[i] \in Range(o.lower[row]) })
            losses == Cardinality({ i \in 1..Len(ents) :
                          ents[i] # row /\ ents[i] \in Range(o.higher[row]) })
        IN  << wins, losses, (Len(ents) - 1) - (wins + losses) >> ]

-----------------------------------------------------------------------------
(* class Contest: ballots and the margins table *)

\* a broken computemargins(): every pair of ranks is visited once, not twice
MarginCallsOnce(ballot) ==
    Flatten([ix \in 1..Len(ballot) |->
      Flatten([r \in 1..Len(ballot[ix]) |->
        Flatten([jx \in 1..Len(ballot) |->
          IF jx <= ix THEN <<>>
          ELSE [c \in 1..Len(ballot[jx]) |->
                  << ballot[ix][r], ballot[jx][c], ix < jx >>]])])])

\* the applymargin(row, col, rowwins) calls computemargins() makes for one
\* ballot, in the order of its five nested loops
MarginCalls(ballot) ==
    Flatten([ix \in 1..Len(ballot) |->
      Flatten([r \in 1..Len(ballot[ix]) |->
        Flatten([jx \in 1..Len(ballot) |->
          IF jx = ix THEN <<>>
          ELSE [c \in 1..Len(ballot[jx]) |->
                  << ballot[ix][r], ballot[jx][c], ix < jx >>]])])])

\* a broken applymargin(): the row is counted as the winner either way
ApplyMarginAlwaysWins(m, row, col, rowwins) ==
    DictPut(m, <<row, col>>, DictGet(m, <<row, col>>, 0) + 1)

\* Contest.applymargin(row, col, rowwins)
ApplyMargin(m, row, col, rowwins) ==
    LET val == DictGet(m, <<row, col>>, 0)
    IN  DictPut(m, <<row, col>>, IF rowwins THEN val + 1 ELSE val - 1)

\* the calls made one after the other. (TLC evaluates an operator's arguments
\* only when they are read: the test on m1 has the table evaluated call by
\* call; a table is never empty after a call.)
RECURSIVE ApplyCalls(_, _)
ApplyCalls(m, calls) ==
    IF calls = <<>> THEN m
    ELSE LET m1 == ApplyMargin(m, Head(calls)[1], Head(calls)[2], Head(calls)[3])
         IN  IF Len(m1) = 0 THEN m1 ELSE ApplyCalls(m1, Tail(calls))

\* the "for ballot in self.ballots" loop of computemargins()
RECURSIVE ScanBallots(_, _)
ScanBallots(m, bs) ==
    IF bs = <<>> THEN m
    ELSE LET m1 == ApplyCalls(m, MarginCalls(Head(bs)))
         IN  IF Len(m1) < Len(m) THEN m1 ELSE ScanBallots(m1, Tail(bs))

\* int(s) of the candidate keys that are integer literals; int() of any
\* other key raises ValueError
IntLiteral == ("1" :> 1) @@ ("2" :> 2) @@ ("3" :> 3) @@ ("4" :> 4) @@ ("5" :> 5)

\* the "for pair, margin in self.margins.items()" loop of margin_to_matrix().
\* A numpy index i is valid when -count <= i < count, a negative one counting
\* from the end.
RECURSIVE FillMatrix(_, _, _)
FillMatrix(matrix, m, count) ==
    IF m = <<>> THEN [ raised |-> "", matrix |-> matrix ]
    ELSE LET pair == Head(m)[1]
             margin == Head(m)[2]
         IN  IF pair[1] \notin DOMAIN IntLiteral \/ pair[2] \notin DOMAIN IntLiteral
             THEN [ raised |-> "ValueError", matrix |-> <<>> ]
             ELSE LET r == IntLiteral[pair[1]] - 1
                      c == IntLiteral[pair[2]] - 1
                      wrap(x) == IF x < 0 THEN x + count ELSE x
                  IN  IF r = c THEN FillMatrix(matrix, Tail(m), count)
                      ELSE IF r >= count \/ r < 0 - count \/ c >= count \/ c < 0 - count
                      THEN [ raised |-> "IndexError", matrix |-> <<>> ]
                      ELSE LET filled ==
                                   [matrix EXCEPT ![wrap(r) + 1][wrap(c) + 1] = margin]
                           IN  IF Len(filled) # count THEN [ raised |-> "", matrix |-> filled ]
                               ELSE FillMatrix(filled, Tail(m), count)

\* Contest.margin_to_matrix(): the matrix, or the exception it raises and
\* margin_matrix left as it was
MarginToMatrix(ents, m) ==
    FillMatrix([r \in 1..Len(ents) |-> [c \in 1..Len(ents) |-> 0]], m, Len(ents))

-----------------------------------------------------------------------------
(* Contest.compute() *)

\* "Gather up and sort the margins": level -> list of the pairs with that
\* positive margin, in the order of the margins table
RECURSIVE Gather(_, _)
Gather(d, m) ==
    IF m = <<>> THEN d
    ELSE LET tup == Head(m)[1]
             val == Head(m)[2]
             d1 == DictPut(d, val, Append(DictGet(d, val, <<>>), tup))
         IN  IF val <= 0 THEN Gather(d, Tail(m))
             ELSE IF Len(d1) = 0 THEN d1 ELSE Gather(d1, Tail(m))

\* max([ val for val in dic.keys() ])
MaxLevel(d) == CHOOSE v \in { d[i][1] : i \in 1..Len(d) } :
                   \A i \in 1..Len(d) : d[i][1] <= v

\* a level that keeps the facts a stronger fact contradicts
CompatLsKeepsAll(o, facts) == facts

\* [ tup for tup in ls if outcome.compatible(*tup) ]
CompatLs(o, facts) == SelectSeq(facts, LAMBDA tup : Compatible(o, tup[1], tup[2]))

\* compatible() raises for a pair (X, X); the list comprehension is outside
\* every try block
HasSelfPair(facts) == \E i \in 1..Len(facts) : facts[i][1] = facts[i][2]

RECURSIVE AcceptEach(_, _)
AcceptEach(o, facts) ==
    IF facts = <<>> THEN o
    ELSE LET o1 == Accept(o, Head(facts)[1], Head(facts)[2])
         IN  IF o1.raised # "" THEN o1 ELSE AcceptEach(o1, Tail(facts))

\* newout = outcome.clone(); for tup in facts: newout.accept(*tup)
TryAll(o, facts) == AcceptEach(Clone(o), facts)

\* a broken leave-one-out attempt: "break" where the code says "continue"
WithoutBreak(facts, avoid) ==
    LET at == { i \in 1..Len(facts) : facts[i] = avoid }
    IN  IF at = {} THEN facts
        ELSE SubSeq(facts, 1, (CHOOSE i \in at : \A j \in at : i <= j) - 1)

\* the facts of one leave-one-out attempt: "if (tup == avoid): continue"
Without(facts, avoid) == SelectSeq(facts, LAMBDA tup : tup # avoid)

\* a broken try block: the clone is thrown away even when every accept()
\* returned
AdoptNever(o, attempt) == o

\* a broken try block: the clone is adopted even when accept() raised
AdoptAlways(o, attempt) == [attempt EXCEPT !.raised = ""]

\* "outcome = newout" at the end of a try block, skipped when accept() raised
Adopt(o, attempt) == IF attempt.raised = "" THEN attempt ELSE o

\* a try block without its except clause: the exception goes on to the caller
ExceptMissing(attempt) == attempt.raised

\* "except: pass": whatever accept() raised inside the try block is dropped,
\* and nothing reaches the caller of compute()
Except(attempt) == ""

\* "len(notguilty) == 0 or len(notguilty) == len(compatls)": give up
GiveUp(ng, cl) == Len(ng) = 0 \/ Len(ng) = Len(cl)

\* the notguilty list at the end of "for avoid in compatls"
NotGuilty(o, cl) ==
    SelectSeq(cl, LAMBDA avoid : TryAll(o, Without(cl, avoid)).raised # "")

\* the Outcome at the end of one pass of the level loop over the facts of
\* the level
LevelPass(o, facts) ==
    IF facts = <<>> THEN o
    ELSE LET cl == CompatLs(o, facts)
             bulk == TryAll(o, cl)
         IN  IF bulk.raised = "" THEN Adopt(o, bulk)
             ELSE LET ng == NotGuilty(o, cl)
                  IN  IF GiveUp(ng, cl) THEN o
                      ELSE Adopt(o, TryAll(o, ng))

RECURSIVE LevelLoop(_, _, _)
LevelLoop(o, d, lv) ==
    IF lv < 1 THEN o
    ELSE LET o1 == LevelPass(o, DictGet(d, lv, <<>>))
         IN  IF o1.raised # "" THEN o1 ELSE LevelLoop(o1, d, lv - 1)

\* Contest.compute() from the margins table to the Outcome it returns
ComputeAll(ents, m) ==
    LET d == Gather(<<>>, m)
    IN  IF d = <<>> THEN BlankOutcome(ents)
        ELSE LevelLoop(BlankOutcome(ents), d, MaxLevel(d))

-----------------------------------------------------------------------------
(* Outcome.printresult() *)

\* cmp(a, b) on two pairs of integers: (a > b) - (a < b), tuples compared
\* item by item
Cmp(a, b) ==
    IF a[1] # b[1] THEN (IF a[1] > b[1] THEN 1 ELSE -1)
    ELSE IF a[2] # b[2] THEN (IF a[2] > b[2] THEN 1 ELSE -1)
    ELSE 0

\* a sorting function that puts the smaller unresolved count first
FuncAscendingTies(r, key1, key2) ==
    Cmp(<< r[key2][1], 0 - r[key2][3] >>, << r[key1][1], 0 - r[key1][3] >>)

\* func(key1, key2): cmp((w2,t2), (w1,t1))
Func(r, key1, key2) ==
    Cmp(<< r[key2][1], r[key2][3] >>, << r[key1][1], r[key1][3] >>)

\* list.sort(key = cmp_to_key(func)): a stable sort that asks only __lt__;
\* each key goes behind the last key that is not greater than it
RECURSIVE SortKeys(_, _, _)
SortKeys(r, sorted, rest) ==
    IF rest = <<>> THEN sorted
    ELSE LET x == Head(rest)
             before == { i \in 1..Len(sorted) : Func(r, x, sorted[i]) >= 0 }
             k == IF before = {} THEN 0
                  ELSE CHOOSE i \in before : \A j \in before : j <= i
         IN  SortKeys(r, SubSeq(sorted, 1, k) \o <<x>> \o SubSeq(sorted, k + 1, Len(sorted)),
                      Tail(rest))

\* a place column that marks a tie whenever the wins are equal
PlaceByWinsOnly(r, sorted, ix) ==
    IF ix = 1 \/ r[sorted[ix - 1]][1] # r[sorted[ix]][1]
    THEN ToString(ix) \o ":"
    ELSE "\":"

\* a place column that numbers every row
PlaceAlwaysNumbered(r, sorted, ix) == ToString(ix) \o ":"

\* the place column of row ix: str(ix)+':' for a new place, '":' for a tie
\* with the row before
Place(r, sorted, ix) ==
    IF ix = 1 \/ Func(r, sorted[ix - 1], sorted[ix]) # 0
    THEN ToString(ix) \o ":"
    ELSE "\":"

\* Contest.labels: {str(index+1): x for index, x in enumerate(entries)}
Labels(ents) == [ k \in { ToString(i) : i \in 1..Len(ents) } |->
                    ents[CHOOSE i \in 1..Len(ents) : ToString(i) = k] ]

\* the rows printed by the "for key in ls" loop: labels[key] raises KeyError
\* for a key that is not the string of a position, and the loop ends there
PrintedRows(ents, r, sorted) ==
    LET nokey == { i \in 1..Len(sorted) : sorted[i] \notin DOMAIN Labels(ents) }
        n == IF nokey = {} THEN Len(sorted)
             ELSE (CHOOSE i \in nokey : \A j \in nokey : i <= j) - 1
    IN  [ ix \in 1..n |->
            << Place(r, sorted, ix), Labels(ents)[sorted[ix]], r[sorted[ix]] >> ]

-----------------------------------------------------------------------------
(* Inputs *)

\* the candidate lines of the modelled vote files: the docstring's example
\* and a contest whose candidates are numbered
ExampleEntries == << "AAA", "BBB", "CCC", "DDD" >>
NumberedEntries == << "1", "2", "3", "4" >>
ThreeEntries == << "1", "2", "3" >>
FiveEntries == << "1", "2", "3", "4", "5" >>

\* the six ballots of the docstring's example, over the entries e
ExampleBallots(e) ==
    << << <<e[4]>>, <<e[3]>>, <<e[2]>>, <<e[1]>> >>,
       << <<e[4]>>, <<e[1]>>, <<e[2]>> >>,
       << <<e[4]>>, <<e[1], e[3]>>, <<e[2]>> >>,
       << <<e[3]>>, <<e[1], e[4], e[2]>> >>,
       << <<e[1]>> >>,
       << <<e[1], e[4]>> >> >>

\* the ballots a modelled vote file is made of: the example's, and three
\* that together prefer e1 to e2, e2 to e3 and e3 to e1
BallotPool(e) ==
    Range(ExampleBallots(e)) \cup
    { << <<e[1]>>, <<e[2], e[4]>> >>,
      << <<e[2]>>, <<e[3]>> >>,
      << <<e[3]>>, <<e[1]>> >> }

IsPrefix(s, t) == Len(s) <= Len(t) /\ SubSeq(t, 1, Len(s)) = s

\* the unordered pairs of the entries, in lexicographic order
PairList(ents) ==
    LET n == Len(ents)
        RECURSIVE From(_, _)
        From(i, j) == IF i >= n THEN <<>>
                      ELSE IF j > n THEN From(i + 1, i + 2)
                      ELSE << <<ents[i], ents[j]>> >> \o From(i, j + 1)
    IN  From(1, 2)

\* orders in which the pairs of a table may have been inserted: for three
\* pairs every order, for six the pairs as listed, reversed, and in strides
\* of three
TableOrders(n) ==
    IF n = 3 THEN { p \in [1..3 -> 1..3] : { p[i] : i \in 1..3 } = 1..3 }
    ELSE { [i \in 1..n |-> i], [i \in 1..n |-> n + 1 - i],
           [i \in 1..n |-> (3 * i) % (n + 1)] }

\* the order the pairs of a table of six were inserted in: one of the three
\* orders, changing from table to table
OrderOf(f) ==
    LET n == Len(f)
        RECURSIVE Sum(_)
        Sum(k) == IF k = 0 THEN 0 ELSE k * f[k] + Sum(k - 1)
        pick == Sum(n) % 3
    IN  [i \in 1..n |-> IF pick = 0 THEN i
                        ELSE IF pick = 1 THEN n + 1 - i
                        ELSE (3 * i) % (n + 1)]

\* the margins dict holding margin f[k] for the k-th pair (0: the pair was
\* never compared), its keys inserted in the given order, (A,B) then (B,A)
TableOf(ents, f, order) ==
    LET pl == PairList(ents)
    IN  Flatten([k \in 1..Len(pl) |->
          LET p == pl[order[k]]
              v == f[order[k]]
          IN  IF v = 0 THEN <<>>
              ELSE << << <<p[1], p[2]>>, v >>, << <<p[2], p[1]>>, 0 - v >> >>])

-----------------------------------------------------------------------------
(* The script: read_file, computemargins, compute, printresult *)

NoOutcome == BlankOutcome(<<>>)

InitCommon ==
    /\ margin_matrix = <<>>
    /\ dic = <<>>
    /\ level = 0
    /\ newout = NoOutcome
    /\ compatls = <<>>
    /\ notguilty = <<>>
    /\ avoidix = 0
    /\ res = <<>>
    /\ ls = <<>>
    /\ listing = <<>>
    /\ err = ""
    /\ heap = <<>>

\* Contest(entries), before any ballot is added
Init ==
    /\ entries \in { ExampleEntries, NumberedEntries }
    /\ ballots = <<>>
    /\ margins = <<>>
    /\ outcome = NoOutcome
    /\ pc = "read"
    /\ InitCommon

\* read_file(): contest.addballot(ls) for one more line of the file
AddBallot(b) ==
    /\ pc = "read"
    /\ \/ Len(ballots) < MaxBallots
       \/ IsPrefix(Append(ballots, b), ExampleBallots(entries))
    /\ ballots' = Append(ballots, b)
    /\ UNCHANGED << heap, entries, margins, margin_matrix, dic, level, outcome, newout,
                    compatls, notguilty, avoidix, res, ls, listing, err, pc >>

\* contest.computemargins(): the scan of the ballots, then margin_to_matrix()
ComputeMargins ==
    /\ pc = "read"
    /\ LET m  == ScanBallots(margins, ballots)
           mm == MarginToMatrix(entries, m)
       IN  /\ margins' = m
           /\ margin_matrix' = mm.matrix
           /\ err' = mm.raised
           /\ pc' = IF mm.raised = "" THEN "margins" ELSE "raised"
    /\ UNCHANGED << heap, entries, ballots, dic, level, outcome, newout, compatls,
                    notguilty, avoidix, res, ls, listing >>

\* the end of one pass of "for level in range(maxmargin, 0, -1)"
NextLevel ==
    /\ level' = level - 1
    /\ pc' = IF level - 1 >= 1 THEN "level" ELSE "computed"

\* contest.compute(), up to the level loop
ComputeStart ==
    /\ pc = "margins"
    /\ LET d == Gather(<<>>, margins)
       IN  /\ dic' = d
           /\ outcome' = BlankOutcome(entries)
           /\ IF d = <<>>
              THEN level' = 0 /\ pc' = "computed"
              ELSE level' = MaxLevel(d) /\ pc' = "level"
    /\ UNCHANGED << heap, entries, ballots, margins, margin_matrix, newout, compatls,
                    notguilty, avoidix, res, ls, listing, err >>

\* one pass of the level loop up to the end of its first try block
LevelBulk ==
    /\ pc = "level"
    /\ LET facts == DictGet(dic, level, <<>>)
       IN  IF facts = <<>>
           THEN /\ NextLevel
                /\ UNCHANGED << outcome, newout, compatls, notguilty, avoidix, err >>
           ELSE IF HasSelfPair(facts)
           THEN /\ err' = "Entry cannot beat itself."
                /\ pc' = "raised"
                /\ UNCHANGED << level, outcome, newout, compatls, notguilty, avoidix >>
           ELSE LET cl == CompatLs(outcome, facts)
                    attempt == TryAll(outcome, cl)
                IN  /\ compatls' = cl
                    /\ newout' = attempt
                    /\ outcome' = Adopt(outcome, attempt)
                    /\ err' = Except(attempt)
                    /\ IF Except(attempt) # ""
                       THEN pc' = "raised" /\ UNCHANGED << level, notguilty, avoidix >>
                       ELSE IF attempt.raised = ""
                       THEN NextLevel /\ UNCHANGED << notguilty, avoidix >>
                       ELSE /\ notguilty' = <<>>
                            /\ avoidix' = 1
                            /\ pc' = "trials"
                            /\ UNCHANGED level
    /\ UNCHANGED << heap, entries, ballots, margins, margin_matrix, dic, res, ls, listing >>

\* one pass of "for avoid in compatls"
TrialStep ==
    /\ pc = "trials"
    /\ LET avoid == compatls[avoidix]
           attempt == TryAll(outcome, Without(compatls, avoid))
       IN  /\ newout' = attempt
           /\ notguilty' = IF attempt.raised # "" THEN Append(notguilty, avoid)
                           ELSE notguilty
           /\ err' = Except(attempt)
           /\ pc' = IF Except(attempt) # "" THEN "raised"
                    ELSE IF avoidix + 1 > Len(compatls) THEN "retry" ELSE "trials"
    /\ avoidix' = avoidix + 1
    /\ UNCHANGED << heap, entries, ballots, margins, margin_matrix, dic, level, outcome,
                    compatls, res, ls, listing >>

\* the rest of the pass: give up, or try the remaining facts once more
Retry ==
    /\ pc = "retry"
    /\ IF GiveUp(notguilty, compatls)
       THEN NextLevel /\ UNCHANGED << outcome, newout, err >>
       ELSE LET attempt == TryAll(outcome, notguilty)
            IN  /\ newout' = attempt
                /\ outcome' = Adopt(outcome, attempt)
                /\ err' = Except(attempt)
                /\ IF Except(attempt) # ""
                   THEN pc' = "raised" /\ UNCHANGED level
                   ELSE NextLevel
    /\ UNCHANGED << heap, entries, ballots, margins, margin_matrix, dic, compatls,
                    notguilty, avoidix, res, ls, listing >>

\* outcome.printresult()
PrintResult ==
    /\ pc = "computed"
    /\ LET r == Result(outcome, entries)
           sorted == SortKeys(r, <<>>, entries)
           rows == PrintedRows(entries, r, sorted)
       IN  /\ res' = r
           /\ ls' = sorted
           /\ listing' = rows
           /\ IF Len(rows) = Len(sorted)
              THEN err' = "" /\ pc' = "done"
              ELSE err' = "KeyError" /\ pc' = "raised"
    /\ UNCHANGED << heap, entries, ballots, margins, margin_matrix, dic, level, outcome,
                    newout, compatls, notguilty, avoidix >>

Compute == ComputeStart \/ LevelBulk \/ TrialStep \/ Retry

Next ==
    \/ \E b \in BallotPool(entries) : AddBallot(b)
    \/ ComputeMargins
    \/ Compute
    \/ PrintResult

Spec == Init /\ [][Next]_vars

-----------------------------------------------------------------------------
(* compute() on any margins table *)

\* the state after computemargins() for a table of margins up to MaxMargin
\* between numbered candidates, whatever ballots produced it
InitTable ==
    /\ entries \in { ThreeEntries, NumberedEntries }
    /\ ballots = <<>>
    /\ LET np == Len(PairList(entries))
           tables == [1..np -> (0 - MaxMargin)..MaxMargin]
       IN  margins \in
             IF np = 3
             THEN { TableOf(entries, f, order) : f \in tables, order \in TableOrders(np) }
             ELSE { TableOf(entries, f, OrderOf(f)) : f \in tables }
    /\ outcome = NoOutcome
    /\ pc = "margins"
    /\ dic = <<>>
    /\ level = 0
    /\ newout = NoOutcome
    /\ compatls = <<>>
    /\ notguilty = <<>>
    /\ avoidix = 0
    /\ res = <<>>
    /\ ls = <<>>
    /\ listing = <<>>
    /\ err = ""
    /\ heap = <<>>
    /\ margin_matrix = MarginToMatrix(entries, margins).matrix

NextTable == Compute

SpecTable == InitTable /\ [][NextTable]_vars

-----------------------------------------------------------------------------
(* accept() and result() called on one Outcome *)

InitAccept ==
    /\ entries = NumberedEntries
    /\ ballots = <<>>
    /\ margins = <<>>
    /\ outcome = BlankOutcome(entries)
    /\ pc = "accept"
    /\ InitCommon

\* outcome.accept(winner, loser); after a raise the Outcome is not used again
AcceptCall(winner, loser) ==
    /\ pc = "accept"
    /\ LET o == Accept(outcome, winner, loser)
       IN  /\ outcome' = o
           /\ err' = o.raised
           /\ pc' = IF o.raised = "" THEN "accept" ELSE "raised"
    /\ UNCHANGED << heap, entries, ballots, margins, margin_matrix, dic, level, newout,
                    compatls, notguilty, avoidix, res, ls, listing >>

\* outcome.result()
ResultCall ==
    /\ pc = "accept"
    /\ res' = Result(outcome, entries)
    /\ pc' = "tallied"
    /\ UNCHANGED << heap, entries, ballots, margins, margin_matrix, dic, level, outcome,
                    newout, compatls, notguilty, avoidix, ls, listing, err >>

NextAccept ==
    \/ \E winner \in Range(entries), loser \in Range(entries) : AcceptCall(winner, loser)
    \/ ResultCall

SpecAccept == InitAccept /\ [][NextAccept]_vars

-----------------------------------------------------------------------------
(* Properties of the Outcome *)

Cands == Range(entries)

Irreflexive(o) == \A a \in Cands : ~Beats(o, a, a)

ContradictionFree(o) == \A a, b \in Cands : ~(Beats(o, a, b) /\ Beats(o, b, a))

TransitivelyClosed(o) ==
    \A a, b, c \in Cands : Beats(o, a, b) /\ Beats(o, b, c) => Beats(o, a, c)

\* the pairs (winner, loser) an Outcome records
BeatsRelation(o) == { p \in Cands \X Cands : Beats(o, p[1], p[2]) }

\* C1: after any sequence of accept(A, B) calls that all succeeded on a blank
\* Outcome, no candidate beats itself, no two candidates beat each other, and
\* beats(A,B) and beats(B,C) imply beats(A,C).
C1_AcceptKeepsOutcomeClosed ==
    pc = "accept" =>
        /\ Irreflexive(outcome)
        /\ ContradictionFree(outcome)
        /\ TransitivelyClosed(outcome)

\* a chain of three accepted facts whose consequences were recorded
C1_Witness ==
    /\ pc = "accept"
    /\ Len(outcome.lower["1"]) = 3
    /\ Len(outcome.lower["2"]) = 2
    /\ Beats(outcome, "3", "4")
    /\ Beats(outcome, "1", "4")

\* C5: result() of an Outcome reached by successful accepts gives every
\* candidate (wins, losses, unresolved), none of them negative, summing to the
\* number of candidates less one, wins the number of candidates it beats and
\* losses the number that beat it.
C5_TallySumsToCountLessOne ==
    pc = "tallied" =>
        \A c \in Cands :
            /\ res[c][1] = Cardinality({ d \in Cands : Beats(outcome, c, d) })
            /\ res[c][2] = Cardinality({ d \in Cands : Beats(outcome, d, c) })
            /\ res[c][1] >= 0 /\ res[c][2] >= 0 /\ res[c][3] >= 0
            /\ res[c][1] + res[c][2] + res[c][3] = Len(entries) - 1

\* a tally with a win, a loss and an unresolved pair for the same candidate
C5_Witness ==
    /\ pc = "tallied"
    /\ res["2"] = << 1, 1, 1 >>
    /\ res["4"] = << 0, 0, 3 >>

-----------------------------------------------------------------------------
(* Properties of the margins table *)

\* the position of the rank group of a ballot that holds the candidate (0: none)
RankOf(ballot, cand) ==
    IF \E ix \in 1..Len(ballot) : cand \in Range(ballot[ix])
    THEN CHOOSE ix \in 1..Len(ballot) : cand \in Range(ballot[ix])
    ELSE 0

\* the ballots that rank a in an earlier group than b
Preferring(a, b) ==
    { i \in 1..Len(ballots) :
        /\ RankOf(ballots[i], a) > 0 /\ RankOf(ballots[i], b) > 0
        /\ RankOf(ballots[i], a) < RankOf(ballots[i], b) }

Scanned == pc # "read"

\* C2: once computemargins() has scanned the ballots, (A,B) is in the margins
\* table exactly when (B,A) is, and then margin(A,B) = -margin(B,A).
C2_MarginsAntisymmetric ==
    Scanned =>
        \A a, b \in Cands : a # b =>
            /\ DictHas(margins, <<a, b>>) <=> DictHas(margins, <<b, a>>)
            /\ DictHas(margins, <<a, b>>) =>
                   DictGet(margins, <<a, b>>, 0) = 0 - DictGet(margins, <<b, a>>, 0)

\* a scanned table with a margin of 2 and a stored margin of 0
C2_Witness ==
    /\ Scanned
    /\ \E a, b \in Cands : a # b /\ DictHas(margins, <<a, b>>)
                           /\ DictGet(margins, <<a, b>>, 1) = 0
    /\ \E a, b \in Cands : DictGet(margins, <<a, b>>, 0) = 2

\* C3: once computemargins() has scanned the ballots, margin(A,B) is the number
\* of ballots ranking A in an earlier group than B less the number ranking A in
\* a later group, and (A,B) is in the table exactly when some ballot ranks the
\* two in different groups; no key pairs a candidate with itself.
C3_MarginsCountPreferences ==
    Scanned =>
        /\ \A a, b \in Cands : a # b =>
              /\ DictHas(margins, <<a, b>>) <=>
                     (Preferring(a, b) \cup Preferring(b, a)) # {}
              /\ DictGet(margins, <<a, b>>, 0) =
                     Cardinality(Preferring(a, b)) - Cardinality(Preferring(b, a))
        /\ \A i \in 1..Len(margins) :
              /\ margins[i][1][1] # margins[i][1][2]
              /\ margins[i][1][1] \in Cands /\ margins[i][1][2] \in Cands

\* a scanned table where two candidates only ever share a rank group and so
\* have no entry, and another pair has ballots in both directions
C3_Witness ==
    /\ Scanned
    /\ \E a, b \in Cands :
          /\ a # b /\ ~DictHas(margins, <<a, b>>)
          /\ \E i \in 1..Len(ballots) :
                RankOf(ballots[i], a) > 0 /\ RankOf(ballots[i], a) = RankOf(ballots[i], b)
    /\ \E a, b \in Cands : Preferring(a, b) # {} /\ Preferring(b, a) # {}

-----------------------------------------------------------------------------
(* Properties of compute() *)

\* the positive entries of the margins table: facts (winner, loser)
PositiveFacts == { margins[i][1] : i \in { j \in 1..Len(margins) : margins[j][2] > 0 } }

\* the margins table with its keys inserted in lexicographic order
SortedMargins ==
    LET pl == PairList(entries)
    IN  TableOf(entries, [k \in 1..Len(pl) |-> DictGet(margins, pl[k], 0)],
                [k \in 1..Len(pl) |-> k])

Computing == pc \in { "level", "trials", "retry" }

\* the loops of compute() are at a position they can go on from, nothing
\* has left compute() as an exception, and a returned Outcome is consistent
ComputeInLoopOrReturned ==
    /\ err = ""
    /\ pc \in { "margins", "level", "trials", "retry", "computed" }
    /\ pc = "level" => level \in 1..MaxLevel(dic)
    /\ pc = "trials" => avoidix \in 1..Len(compatls)
    /\ pc = "retry" => avoidix = Len(compatls) + 1
    /\ pc = "computed" =>
          /\ outcome.raised = ""
          /\ Irreflexive(outcome)
          /\ ContradictionFree(outcome)
          /\ TransitivelyClosed(outcome)

\* every step of compute() leaves fewer steps to do: it starts the level
\* loop, ends a pass of it, or moves on inside the pass
ComputeAdvances ==
    \/ pc = "margins" /\ pc' \in { "level", "computed" }
    \/ level' < level /\ pc' \in { "level", "computed" }
    \/ level' = level /\ pc = "level" /\ pc' = "trials"
    \/ level' = level /\ pc = "trials" /\ avoidix' = avoidix + 1
                      /\ pc' \in { "trials", "retry" }

\* C4: on an antisymmetric margins table without self-pairs compute() always
\* goes on until it returns; whatever accept() raises in the bulk accept, in a
\* leave-one-out attempt or in the retry stays inside compute(); and the
\* Outcome it returns is irreflexive, contradiction-free and transitively
\* closed.
C4_ComputeReturnsClosedOutcome ==
    [] ComputeInLoopOrReturned /\ [][ComputeAdvances]_vars

\* compute() has returned after a bulk accept and leave-one-out attempts
\* raised, and the facts left over were accepted
C4_Witness ==
    /\ pc = "computed"
    /\ Len(notguilty) > 0 /\ Len(notguilty) < Len(compatls)
    /\ newout.raised = ""
    /\ BeatsRelation(outcome) # {}

\* C6: the beats relation compute() returns is the one it returns for the
\* same margins with the pairs inserted in lexicographic order: the order in
\* which the pairs of a level are gathered and tried does not matter.
C6_OutcomeIndependentOfOrder ==
    pc = "computed" =>
        BeatsRelation(outcome) = BeatsRelation(ComputeAll(entries, SortedMargins))

\* compute() has returned for a table whose keys are not in lexicographic
\* order, after leave-one-out attempts, with some facts accepted
C6_Witness ==
    /\ pc = "computed"
    /\ margins # SortedMargins
    /\ Len(notguilty) > 0 /\ Len(notguilty) < Len(compatls)
    /\ BeatsRelation(outcome) # {}

\* the margins table of a three-way cycle: the only positive margins are
\* a over b, b over c and c over a, all 1
ThreeCycle(a, b, c) ==
    /\ PositiveFacts = { <<a, b>>, <<b, c>>, <<c, a>> }
    /\ DictGet(margins, <<a, b>>, 0) = 1
    /\ DictGet(margins, <<b, c>>, 0) = 1
    /\ DictGet(margins, <<c, a>>, 0) = 1

\* the claim as written: in a three-way cycle of margin 1 the Outcome returned
\* is acyclic and one or two of the three facts are recorded in it
C7_Original ==
    \A a, b, c \in Cands :
        (pc = "computed" /\ Cardinality({a, b, c}) = 3 /\ ThreeCycle(a, b, c)) =>
            /\ ContradictionFree(outcome) /\ Irreflexive(outcome)
            /\ Cardinality(BeatsRelation(outcome) \cap { <<a, b>>, <<b, c>>, <<c, a>> })
                   \in {1, 2}

\* C7 (amended): in a three-way cycle of margin 1 every fact is found guilty,
\* the level is given up, and the Outcome returned is blank: it is acyclic and
\* none of the three facts is recorded in it.
C7_ThreeCycleDropsAllThree ==
    \A a, b, c \in Cands :
        (pc = "computed" /\ Cardinality({a, b, c}) = 3 /\ ThreeCycle(a, b, c)) =>
            /\ ContradictionFree(outcome) /\ Irreflexive(outcome)
            /\ BeatsRelation(outcome) = {}
            /\ Len(compatls) = 3 /\ notguilty = <<>>

\* compute() has returned for a three-way cycle among three candidates
C7_Witness ==
    /\ pc = "computed"
    /\ Len(entries) = 3
    /\ ThreeCycle("1", "2", "3")
    /\ avoidix = 4

-----------------------------------------------------------------------------
(* Properties of the script's run *)

\* the docstring's example has been read and computemargins() called
ExampleScanned ==
    /\ entries = ExampleEntries
    /\ ballots = ExampleBallots(entries)
    /\ Scanned

\* C8: for the contest AAA BBB CCC DDD with the six ballots of the docstring,
\* computemargins() gives margin(AAA,BBB) = 1, margin(DDD,AAA) = 3,
\* margin(CCC,AAA) = 2 and margin(DDD,CCC) = 1, and compute().result() gives
\* DDD (3,0,0), CCC (2,1,0), AAA (1,2,0), BBB (0,3,0), ranked in that order.
C8_ExampleMarginsAndTally ==
    ExampleScanned =>
        /\ err = "" /\ pc # "raised"
        /\ DictGet(margins, << "AAA", "BBB" >>, 0) = 1
        /\ DictGet(margins, << "DDD", "AAA" >>, 0) = 3
        /\ DictGet(margins, << "CCC", "AAA" >>, 0) = 2
        /\ DictGet(margins, << "DDD", "CCC" >>, 0) = 1
        /\ pc \in { "computed", "done" } =>
              LET r == Result(outcome, entries)
              IN  /\ r["DDD"] = << 3, 0, 0 >>
                  /\ r["CCC"] = << 2, 1, 0 >>
                  /\ r["AAA"] = << 1, 2, 0 >>
                  /\ r["BBB"] = << 0, 3, 0 >>
                  /\ SortKeys(r, <<>>, entries) = << "DDD", "CCC", "AAA", "BBB" >>

\* no ballot of the contest places two candidates in different rank groups
NoPreference == \A i \in 1..Len(ballots) : Len(ballots[i]) <= 1

\* compute() has returned
Computed == pc \in { "computed", "done" } \/ (pc = "raised" /\ err = "KeyError")

Listed == ls # <<>>

\* the claim as written: the listing is in descending order of wins and,
\* among equal wins, in ascending order of the unresolved count
C10_Original ==
    Listed =>
        \A i, j \in 1..Len(ls) : i < j =>
            \/ res[ls[i]][1] > res[ls[j]][1]
            \/ /\ res[ls[i]][1] = res[ls[j]][1]
               /\ res[ls[i]][3] <= res[ls[j]][3]

\* C10 (amended): the listing holds every candidate once, in descending order
\* of wins and, among equal wins, in descending order of the unresolved
\* count, which is the ascending order of losses; the rows printed follow it.
C10_ListedByWinsThenFewestLosses ==
    Listed =>
        /\ Len(ls) = Len(entries) /\ Range(ls) = Cands
        /\ \A i, j \in 1..Len(ls) : i < j =>
              \/ res[ls[i]][1] > res[ls[j]][1]
              \/ /\ res[ls[i]][1] = res[ls[j]][1]
                 /\ res[ls[i]][3] >= res[ls[j]][3]
                 /\ res[ls[i]][2] <= res[ls[j]][2]
        /\ \A ix \in 1..Len(listing) : listing[ix][3] = res[ls[ix]]

\* a printed listing where two candidates with the same wins but different
\* unresolved counts follow each other
C10_Witness ==
    /\ pc = "done"
    /\ Len(listing) = Len(entries)
    /\ \E i \in 1..(Len(ls) - 1) :
          /\ res[ls[i]][1] = res[ls[i + 1]][1]
          /\ res[ls[i]][3] > res[ls[i + 1]][3]

\* C11: in the listing a candidate comes before another when it has more
\* wins, or the same wins and no more losses; and a row carries the tie mark
\* exactly when its wins and losses both equal those of the row before it
\* (every other row carries its own position as its place).
C11_TiesBrokenByWinsThenLosses ==
    Listed =>
        /\ \A i, j \in 1..Len(ls) : i < j =>
              \/ res[ls[i]][1] > res[ls[j]][1]
              \/ /\ res[ls[i]][1] = res[ls[j]][1]
                 /\ res[ls[i]][2] <= res[ls[j]][2]
        /\ \A ix \in 1..Len(ls) :
              LET same == /\ ix > 1
                          /\ res[ls[ix - 1]][1] = res[ls[ix]][1]
                          /\ res[ls[ix - 1]][2] = res[ls[ix]][2]
              IN  /\ Place(res, ls, ix) = IF same THEN "\":" ELSE ToString(ix) \o ":"
                  /\ ix <= Len(listing) => listing[ix][1] = Place(res, ls, ix)

\* a printed listing with a row that continues the place of the row before
\* it and a row that has the wins of the row before it but more losses
C11_Witness ==
    /\ pc = "done"
    /\ Len(listing) = Len(entries)
    /\ \E ix \in 2..Len(ls) : listing[ix][1] = "\":"
    /\ \E ix \in 2..Len(ls) :
          /\ res[ls[ix - 1]][1] = res[ls[ix]][1]
          /\ res[ls[ix - 1]][2] < res[ls[ix]][2]
          /\ listing[ix][1] = ToString(ix) \o ":"

-----------------------------------------------------------------------------
(* Properties of the level loop *)

\* the transitive closure of a set of pairs of candidates
Closure(rel) ==
    LET RECURSIVE Grow(_)
        Grow(r) ==
            LET r2 == r \cup { pq \in Cands \X Cands :
                                 \E m \in Cands : << pq[1], m >> \in r /\ << m, pq[2] >> \in r }
            IN  IF r2 = r THEN r ELSE Grow(r2)
    IN  Grow(rel)

\* the pairs can all hold together: no candidate ends up beating itself
Acyclic(rel) == \A c \in Cands : << c, c >> \notin Closure(rel)

\* the facts of the level in hand
LevelFacts == Range(DictGet(dic, level, <<>>))

\* C12: at the end of the leave-one-out pass of a level whose bulk accept
\* failed, with R the facts of the level compatible with the pre-level
\* Outcome and N the facts P of R such that R less P still cannot be accepted
\* onto the pre-level Outcome: notguilty is N; if N is empty or N = R the
\* Outcome after the level is the pre-level Outcome; otherwise the facts of N
\* are the batch accepted into a clone, and if that succeeds the Outcome after
\* the level records the pre-level relation, N and their transitive
\* consequences, and nothing else.
C12_LeaveOneOutKeepsNotGuilty ==
    [][ pc = "retry" =>
          LET pre == BeatsRelation(outcome)
              R == { P \in LevelFacts : << P[2], P[1] >> \notin pre }
              N == { P \in R : ~Acyclic(pre \cup (R \ {P})) }
          IN  /\ ~Acyclic(pre \cup R)
              /\ Range(compatls) = R /\ Len(compatls) = Cardinality(R)
              /\ Range(notguilty) = N /\ Len(notguilty) = Cardinality(N)
              /\ IF N = {} \/ N = R
                 THEN outcome' = outcome
                 ELSE /\ newout' = TryAll(outcome, notguilty)
                      /\ newout'.raised = "" =>
                            /\ outcome' = newout'
                            /\ BeatsRelation(outcome') = Closure(pre \cup N)
                      /\ newout'.raised # "" => outcome' = outcome
      ]_vars

\* a level has ended with the retry: some of its compatible facts were not
\* excluded and are recorded, and an excluded one is not
C12_Witness ==
    /\ pc \in { "level", "computed" }
    /\ avoidix = Len(compatls) + 1
    /\ Len(notguilty) > 0 /\ Len(notguilty) < Len(compatls)
    /\ outcome = newout
    /\ Range(notguilty) \subseteq BeatsRelation(outcome)
    /\ \E P \in Range(compatls) : P \notin BeatsRelation(outcome)

\* C13: once compute() has its blank Outcome, every step keeps every
\* beats(A,B) the Outcome records, so what is recorded after a level is
\* recorded after every later level and at the end; and a fact (winner, loser)
\* of the level in hand for which beats(loser, winner) already holds is left
\* out of compatls and is not recorded by the step, hence never.
C13_StrongerFactsStay ==
    [][ pc # "margins" =>
          /\ BeatsRelation(outcome) \subseteq BeatsRelation(outcome')
          /\ \A a, b \in Cands :
                Beats(outcome, b, a) => ~Beats(outcome', a, b)
          /\ \A P \in LevelFacts :
                (pc = "level" /\ Beats(outcome, P[2], P[1])) =>
                    P \notin Range(compatls')
      ]_vars

\* a level has started with a fact discarded because a stronger fact holds
\* against it, and its other facts contradict each other
C13_Witness ==
    /\ pc = "trials" /\ avoidix = 1
    /\ Len(compatls) < Cardinality(LevelFacts)
    /\ \E P \in LevelFacts : Beats(outcome, P[2], P[1]) /\ P \notin Range(compatls)

\* C16: when the leave-one-out pass ends with notguilty neither empty nor
\* all of compatls, the retry that accepts the facts of notguilty into a
\* clone of the pre-level Outcome does not raise, and the clone is adopted:
\* the except clause of the retry is never entered.
C16_RetryNeverRaises ==
    [][ (pc = "retry" /\ Len(notguilty) > 0 /\ Len(notguilty) < Len(compatls)) =>
          /\ newout' = TryAll(outcome, notguilty)
          /\ newout'.raised = ""
          /\ outcome' = newout'
      ]_vars

\* a retry has been made on top of facts of a higher level and its clone
\* adopted
C16_Witness ==
    /\ pc \in { "level", "computed" }
    /\ avoidix = Len(compatls) + 1
    /\ Len(notguilty) > 0 /\ Len(notguilty) < Len(compatls)
    /\ outcome = newout
    /\ \E P \in BeatsRelation(outcome) : DictGet(margins, P, 0) = MaxMargin
    /\ \E i \in 1..Len(notguilty) : DictGet(margins, notguilty[i], 0) < MaxMargin

-----------------------------------------------------------------------------
(* compute() when one candidate is preferred to every other *)

\* the state after computemargins() for five candidates where "1" has a
\* positive margin over every other; "4" and "5" were never compared, and
\* the other pairs have any margin up to MaxMargin
InitFive ==
    /\ entries = FiveEntries
    /\ ballots = <<>>
    /\ margins \in
          { TableOf(entries,
                    [k \in 1..10 |-> IF k <= 4 THEN w[k]
                                     ELSE IF k = 10 THEN 0 ELSE g[k - 4]],
                    [k \in 1..10 |-> k]) :
              w \in [1..4 -> 1..MaxMargin],
              g \in [1..5 -> (0 - MaxMargin)..MaxMargin] }
    /\ outcome = NoOutcome
    /\ pc = "margins"
    /\ dic = <<>>
    /\ level = 0
    /\ newout = NoOutcome
    /\ compatls = <<>>
    /\ notguilty = <<>>
    /\ avoidix = 0
    /\ res = <<>>
    /\ ls = <<>>
    /\ listing = <<>>
    /\ err = ""
    /\ heap = <<>>
    /\ margin_matrix = MarginToMatrix(entries, margins).matrix

NextFive == Compute

SpecFive == InitFive /\ [][NextFive]_vars

\* w has a positive margin over every other candidate
CondorcetWinner(w) == \A x \in Cands \ {w} : DictGet(margins, << w, x >>, 0) > 0

\* C17: a candidate with a positive margin over every other candidate beats
\* every other candidate in the Outcome compute() returns, has the tally
\* (n-1, 0, 0) and is listed first, alone in place 1.
C17_CondorcetWinnerWins ==
    pc = "computed" =>
        \A w \in Cands : CondorcetWinner(w) =>
            LET r == Result(outcome, entries)
                sorted == SortKeys(r, <<>>, entries)
            IN  /\ \A x \in Cands \ {w} : Beats(outcome, w, x)
                /\ r[w] = << Len(entries) - 1, 0, 0 >>
                /\ sorted[1] = w
                /\ Place(r, sorted, 2) = "2:"

-----------------------------------------------------------------------------
(* Outcomes held by reference: clone() and accept() on dict objects *)

\* In this part an Outcome is an object: outcome and newout name the object
\* (1 or 2: a clone is made where the Outcome not in use was), heap.outer
\* holds its dicts higher and lower, whose values are references to inner
\* dicts, and heap.inner holds the inner dicts.
Tables == { "higher", "lower" }
Objects == { 1, 2 }

\* the reference of a key that is not in a dict
NoDict == << 0, "none", "none" >>

\* the dicts of an Outcome read through its references
ViewOf(h, obj) ==
    LET read(t, c) == IF h.outer[<< obj, t >>][c] = NoDict THEN <<>>
                      ELSE h.inner[h.outer[<< obj, t >>][c]]
    IN  [ higher |-> [c \in Cands |-> read("higher", c)],
          lower  |-> [c \in Cands |-> read("lower", c)],
          raised |-> "" ]

\* Outcome(contest) for every object: higher = {} and lower = {}
BlankHeap ==
    [ outer |-> [x \in Objects \X Tables |-> [c \in Cands |-> NoDict]],
      inner |-> [r \in Objects \X Tables \X Cands |-> <<>>] ]

\* a clone() that copies the references: res.higher[key] = self.higher[key]
CloneObjectShallow(h, obj, new) ==
    [ h EXCEPT !.outer = [x \in DOMAIN h.outer |->
                            IF x[1] = new THEN h.outer[<< obj, x[2] >>]
                            ELSE h.outer[x]] ]

\* obj.clone(): a new Outcome whose dicts hold, for every key of obj's dicts,
\* a copy of the inner dict
CloneObject(h, obj, new) ==
    [ outer |-> [x \in DOMAIN h.outer |->
                   IF x[1] = new
                   THEN [c \in Cands |->
                           IF h.outer[<< obj, x[2] >>][c] = NoDict THEN NoDict
                           ELSE << new, x[2], c >>]
                   ELSE h.outer[x]],
      inner |-> [r \in DOMAIN h.inner |->
                   IF r[1] = new
                   THEN (IF h.outer[<< obj, r[2] >>][r[3]] = NoDict THEN <<>>
                         ELSE h.inner[h.outer[<< obj, r[2] >>][r[3]]])
                   ELSE h.inner[r]] ]

\* obj.accept(winner, loser): the inner dicts obj refers to are changed in
\* place ("dic[loser] = True"), and a key without an inner dict gets a new
\* one ("self.lower[winner] = { loser:True }")
AcceptObject(h, obj, winner, loser) ==
    LET old == ViewOf(h, obj)
        new == Accept(old, winner, loser)
        target(t, c) == IF h.outer[<< obj, t >>][c] = NoDict THEN << obj, t, c >>
                        ELSE h.outer[<< obj, t >>][c]
        written == { tc \in Tables \X Cands : new[tc[1]][tc[2]] # old[tc[1]][tc[2]] }
    IN  [ raised |-> new.raised,
          heap |->
            [ outer |-> [x \in DOMAIN h.outer |->
                           IF x[1] = obj
                           THEN [c \in Cands |-> IF << x[2], c >> \in written
                                                 THEN target(x[2], c)
                                                 ELSE h.outer[x][c]]
                           ELSE h.outer[x]],
              inner |-> [r \in DOMAIN h.inner |->
                           IF \E tc \in written : target(tc[1], tc[2]) = r
                           THEN LET tc == CHOOSE tc \in written : target(tc[1], tc[2]) = r
                                IN  new[tc[1]][tc[2]]
                           ELSE h.inner[r]] ] ]

\* compute() before its first try block: outcome = Outcome(self)
InitClone ==
    /\ entries = ThreeEntries
    /\ ballots = <<>>
    /\ margins = <<>>
    /\ margin_matrix = <<>>
    /\ dic = <<>>
    /\ level = 0
    /\ compatls = <<>>
    /\ notguilty = <<>>
    /\ avoidix = 0
    /\ res = <<>>
    /\ ls = <<>>
    /\ listing = <<>>
    /\ err = ""
    /\ heap = BlankHeap
    /\ outcome = 1
    /\ newout = 0
    /\ pc = "outer"

\* "newout = outcome.clone()" at the head of a try block
CloneCall ==
    /\ pc = "outer"
    /\ newout' = 3 - outcome
    /\ heap' = CloneObject(heap, outcome, 3 - outcome)
    /\ pc' = "try"
    /\ UNCHANGED << entries, ballots, margins, margin_matrix, dic, level, outcome,
                    compatls, notguilty, avoidix, res, ls, listing, err >>

\* "newout.accept(*tup)" inside a try block
AcceptOnClone(winner, loser) ==
    /\ pc = "try"
    /\ LET r == AcceptObject(heap, newout, winner, loser)
       IN  /\ heap' = r.heap
           /\ pc' = IF r.raised = "" THEN "try" ELSE "except"
    /\ UNCHANGED << entries, ballots, margins, margin_matrix, dic, level, outcome,
                    newout, compatls, notguilty, avoidix, res, ls, listing, err >>

\* "outcome = newout" at the end of the bulk accept or of the retry
AdoptClone ==
    /\ pc = "try"
    /\ outcome' = newout
    /\ pc' = "outer"
    /\ UNCHANGED << heap, entries, ballots, margins, margin_matrix, dic, level,
                    newout, compatls, notguilty, avoidix, res, ls, listing, err >>

\* the end of a leave-one-out try block that did not raise: the loop goes on
DropClone ==
    /\ pc = "try"
    /\ pc' = "outer"
    /\ UNCHANGED << heap, entries, ballots, margins, margin_matrix, dic, level,
                    outcome, newout, compatls, notguilty, avoidix, res, ls, listing,
                    err >>

\* the except clause of a try block
ExceptClause ==
    /\ pc = "except"
    /\ pc' = "outer"
    /\ UNCHANGED << heap, entries, ballots, margins, margin_matrix, dic, level,
                    outcome, newout, compatls, notguilty, avoidix, res, ls, listing,
                    err >>

NextClone ==
    \/ CloneCall
    \/ \E winner \in Range(entries) : \E loser \in Range(entries) \ {winner} :
          AcceptOnClone(winner, loser)
    \/ AdoptClone
    \/ DropClone
    \/ ExceptClause

SpecClone == InitClone /\ [][NextClone]_vars

\* the inner dicts an Outcome refers to
InnerDicts(h, obj) ==
    { h.outer[<< obj, t >>][c] : t \in Tables, c \in Cands } \ { NoDict }

\* C14: compute() calls accept() only on the clone made at the head of the
\* try block. The clone reads as the Outcome it was made from and shares no
\* inner dict with it; no step but "outcome = newout" changes which Outcome
\* is the current one, and no step changes the dicts of the current Outcome:
\* so when an attempt raises, the current Outcome is what it was before the
\* attempt.
C14_CloneLeavesOutcomeAlone ==
    [][ /\ outcome' # outcome =>
              pc = "try" /\ pc' = "outer" /\ outcome' = newout /\ heap' = heap
        /\ outcome' = outcome => ViewOf(heap', outcome) = ViewOf(heap, outcome)
        /\ (pc = "outer" /\ pc' = "try") =>
              /\ newout' # outcome
              /\ ViewOf(heap', newout') = ViewOf(heap, outcome)
              /\ InnerDicts(heap', newout') \cap InnerDicts(heap', outcome) = {}
        /\ pc' = "except" =>
              /\ outcome' = outcome
              /\ ViewOf(heap', outcome') = ViewOf(heap, outcome)
      ]_vars

\* an attempt has raised after it had recorded facts in the clone, and the
\* current Outcome is one adopted from an earlier clone
C14_Witness ==
    /\ pc = "except"
    /\ outcome = 2 /\ newout = 1
    /\ ViewOf(heap, outcome).higher # BlankOutcome(entries).higher
    /\ \E c \in Cands :
          Len(ViewOf(heap, newout).lower[c]) > Len(ViewOf(heap, outcome).lower[c])

-----------------------------------------------------------------------------
(* Properties of one accept() call *)

=============================================================================
